---- MODULE Spec2Model ----
(***************************************************************************)
(* A model of the XAI module for MCQ quizzes (src/xai_module): the TF-IDF  *)
(* snippet retriever, the rule reasoner, the LLM adapter and the pipeline  *)
(* run_xai that composes them.  Texts are TLA+ strings, handled character  *)
(* by character the way the Python code handles them.                      *)
(***************************************************************************)
EXTENDS Integers, Sequences, FiniteSets, TLC

VARIABLES
    question,        \* run_xai / get_relevant_snippet / reason_mcq: the question text
    student_answer,  \* the answer selected by the student
    correct_answer,  \* the correct answer
    lecture_docs,    \* the list of lecture documents
    top_k,           \* get_relevant_snippet's top_k
    llm_client,      \* the llm_client argument of run_xai (ClientNone when omitted)
    env_key,         \* os.getenv("DEEPSEEK_API_KEY"): <<>> when unset, <<v>> when set
    json_error_is_request_exception,
                     \* whether the installed requests raises a RequestException
                     \* subclass from Response.json() (requests >= 2.27) or a bare
                     \* ValueError subclass (older builds)
    pc,              \* the position of the running call
    evidence,        \* the evidence text (run_xai local / reason_mcq argument)
    snippets,        \* the list get_relevant_snippet returned
    reasoning,       \* the record reason_mcq returned
    ctor_outcome,    \* outcome of DeepSeekClient() inside run_xai
    llm_outcome,     \* outcome of llm_client.generate(...)
    result,          \* what the running call returned (or raised)
    trace,           \* the stages of run_xai executed so far, in order
    llm_text,        \* run_xai's local llm_text
    http_response,   \* what the provider endpoint does with the request of generate
    generate_calls   \* how many times generate was invoked in this run

vars == <<question, student_answer, correct_answer, lecture_docs, top_k,
          llm_client, env_key, json_error_is_request_exception, pc, evidence,
          snippets, reasoning, ctor_outcome, llm_outcome, result, trace,
          llm_text, http_response, generate_calls>>

(***************************************************************************)
(* Bounds of the model.                                                    *)
(***************************************************************************)
MaxDocs == 2
MaxTopK == 2

(***************************************************************************)
(* Python str operations.                                                  *)
(***************************************************************************)
Min(a, b) == IF a < b THEN a ELSE b

Char(s, i) == SubSeq(s, i, i)

UpperLetters == "ABCDEFGHIJKLMNOPQRSTUVWXYZ"
LowerLetters == "abcdefghijklmnopqrstuvwxyz"
DigitsAndUnderscore == "0123456789_"

\* str.isspace for one character (the ASCII whitespace the inputs use)
IsSpace(c) == c \in {" ", "\t", "\n", "\r"}

RECURSIVE lstrip(_)
lstrip(s) ==
    IF Len(s) = 0 THEN s
    ELSE IF IsSpace(Char(s, 1)) THEN lstrip(SubSeq(s, 2, Len(s)))
    ELSE s

RECURSIVE rstrip(_)
rstrip(s) ==
    IF Len(s) = 0 THEN s
    ELSE IF IsSpace(Char(s, Len(s))) THEN rstrip(SubSeq(s, 1, Len(s) - 1))
    ELSE s

\* str.strip()
strip(s) == rstrip(lstrip(s))

LowerChar(c) ==
    IF \E i \in 1..Len(UpperLetters) : Char(UpperLetters, i) = c
    THEN Char(LowerLetters, CHOOSE i \in 1..Len(UpperLetters) : Char(UpperLetters, i) = c)
    ELSE c

\* str.lower(), character by character (split in halves to keep the
\* evaluation shallow)
RECURSIVE lower(_)
lower(s) ==
    IF Len(s) = 0 THEN s
    ELSE IF Len(s) = 1 THEN LowerChar(s)
    ELSE LET h == Len(s) \div 2
         IN  lower(SubSeq(s, 1, h)) \o lower(SubSeq(s, h + 1, Len(s)))

\* s[:n]
Slice(s, n) == SubSeq(s, 1, Min(n, Len(s)))

(***************************************************************************)
(* Outcomes of a call and Python exceptions.                               *)
(***************************************************************************)
NoOutcome == [kind |-> "none", value |-> "", exc |-> ""]
Return(v) == [kind |-> "return", value |-> v, exc |-> ""]
Raise(e) == [kind |-> "raise", value |-> "", exc |-> e]

\* classes derived from Exception (KeyboardInterrupt and SystemExit derive
\* from BaseException only)
IsException(e) == e \notin {"KeyboardInterrupt", "SystemExit"}

\* issubclass(e, ValueError)
IsValueError(e) == e \in {"ValueError", "JSONDecodeError"}

\* issubclass(e, requests.exceptions.RequestException)
IsRequestException(e) == e \in {"ConnectionError", "Timeout", "HTTPError", "RequestsJSONDecodeError"}

(***************************************************************************)
(* rule_reasoner.reason_mcq                                                *)
(***************************************************************************)
CorrectHint ==
    "Your answer is correct! You have a good understanding of this concept."
CorrectReviewTopic ==
    "You have mastered this topic. Consider reviewing related advanced concepts."
IncorrectHint ==
    "Your answer is incorrect. The selected option appears to be related to a different "
    \o "concept than what the question is focusing on. Please review the lecture material "
    \o "related to this topic."
GenericReviewTopic ==
    "You should review the lecture section mentioned in the evidence. "
    \o "Pay special attention to the key concepts and definitions related to this question."
EvidenceReviewPrefix ==
    "You should review the lecture section mentioned in the evidence: "
EvidenceReviewSuffix ==
    "... (if applicable). "
    \o "Focus on understanding the key concepts and their relationships."

\* evidence[:100]
EvidenceSliceLen == 100
EvidenceSliceShort(ev) == Slice(ev, EvidenceSliceLen - 1)
EvidenceSlice(ev) == Slice(ev, EvidenceSliceLen)

\* student_answer.strip().lower() / correct_answer.strip().lower()
NormalizeNoLower(answer) == strip(answer)
Normalize(answer) == lower(strip(answer))

reason_mcq(q, student, correct, ev) ==
    LET student_normalized == Normalize(student)
        correct_normalized == Normalize(correct)
        is_correct == student_normalized = correct_normalized
    IN  IF is_correct
        THEN [status |-> "correct",
              explanation_hint |-> CorrectHint,
              review_topic |-> CorrectReviewTopic]
        ELSE [status |-> "incorrect",
              explanation_hint |-> IncorrectHint,
              review_topic |->
                  IF ev # ""
                  THEN EvidenceReviewPrefix \o EvidenceSlice(ev) \o EvidenceReviewSuffix
                  ELSE GenericReviewTopic]

(***************************************************************************)
(* tfidf_extractor: TfidfVectorizer(stop_words='english', lowercase=True,  *)
(* max_features=1000) and cosine_similarity.  Weights are fixed-point      *)
(* integers (idf scaled by 10); a similarity is kept as the exact fraction *)
(* num/den of those integers, so "greater" and "positive" are decided      *)
(* without rounding.                                                       *)
(***************************************************************************)
max_features == 1000

CharsOf(s) == {Char(s, i) : i \in 1..Len(s)}

\* \w of the token pattern r"(?u)\b\w\w+\b"
WordChars == CharsOf(LowerLetters) \cup CharsOf(UpperLetters) \cup CharsOf(DigitsAndUnderscore)

\* the words of scikit-learn's English stop list that the inputs use
StopWords == {"the", "of", "is", "what", "to", "in", "and", "with", "for", "how",
              "it", "that", "are", "an", "be", "by", "on", "this", "why", "you"}

IsWordAt(s, i) == Char(s, i) \in WordChars

\* where a maximal run of word characters starts, and where the run ends
RunStarts(s) == {i \in 1..Len(s) : IsWordAt(s, i) /\ (i = 1 \/ ~IsWordAt(s, i - 1))}
RunEnd(s, i) ==
    CHOOSE j \in i..Len(s) :
        /\ \A m \in i..j : IsWordAt(s, m)
        /\ (j = Len(s) \/ ~IsWordAt(s, j + 1))

\* the runs of two or more word characters that start at the positions
\* starts, left to right
RECURSIVE RunsAt(_, _)
RunsAt(s, starts) ==
    IF starts = {} THEN <<>>
    ELSE LET i == CHOOSE a \in starts : \A b \in starts : a <= b
             e == RunEnd(s, i)
             rest == RunsAt(s, starts \ {i})
         IN  IF e - i + 1 >= 2 THEN <<SubSeq(s, i, e)>> \o rest ELSE rest

\* re.findall(r"\b\w\w+\b", s)
Tokens(s) == RunsAt(s, RunStarts(s))

\* the vectorizer's analyzer: lowercase, tokenize, drop stop words
Analyze(doc) == SelectSeq(Tokens(lower(doc)), LAMBDA t : t \notin StopWords)

\* the analyzed documents, one token list per document
RECURSIVE AnalyzeAll(_)
AnalyzeAll(docs) ==
    IF Len(docs) = 0 THEN <<>>
    ELSE <<Analyze(Head(docs))>> \o AnalyzeAll(Tail(docs))

\* the function f restricted to S, written out as an explicit table
RECURSIVE TableOn(_, _)
TableOn(f, S) ==
    IF S = {} THEN <<>>
    ELSE LET x == CHOOSE y \in S : TRUE
         IN  (x :> f[x]) @@ TableOn(f, S \ {x})

Table(f) == TableOn(f, DOMAIN f)

RECURSIVE SumF(_, _)
SumF(f, S) ==
    IF S = {} THEN 0
    ELSE LET x == CHOOSE y \in S : TRUE IN f[x] + SumF(f, S \ {x})

Tf(t, toks) == Cardinality({i \in DOMAIN toks : toks[i] = t})

AllTerms(tokdocs) == UNION {{tokdocs[i][j] : j \in DOMAIN tokdocs[i]} : i \in DOMAIN tokdocs}

\* max_features: keep the terms with the highest corpus frequency
Vocabulary(tokdocs) ==
    LET terms == AllTerms(tokdocs)
        Total(t) == SumF(Table([i \in DOMAIN tokdocs |-> Tf(t, tokdocs[i])]), DOMAIN tokdocs)
    IN  IF Cardinality(terms) <= max_features THEN terms
        ELSE CHOOSE S \in SUBSET terms :
                 /\ Cardinality(S) = max_features
                 /\ \A a \in S, b \in terms \ S : Total(a) >= Total(b)

\* round(10 * ln k)
Ln10 == <<0, 7, 11, 14, 16, 18, 19, 21, 22, 23, 24, 25>>

Df(t, tokdocs) == Cardinality({i \in DOMAIN tokdocs : Tf(t, tokdocs[i]) > 0})

\* smooth idf: ln((1 + n) / (1 + df)) + 1, times 10
Idf10(t, tokdocs) == Ln10[1 + Len(tokdocs)] - Ln10[1 + Df(t, tokdocs)] + 10

Isqrt(n) == CHOOSE r \in 0..n : r * r <= n /\ n < (r + 1) * (r + 1)

\* fit_transform: row i holds tf * idf for every term of the vocabulary
TfidfMatrix(tokdocs) ==
    LET V == Vocabulary(tokdocs)
        idf == Table([t \in V |-> Idf10(t, tokdocs)])
    IN  Table([i \in DOMAIN tokdocs |-> Table([t \in V |-> Tf(t, tokdocs[i]) * idf[t]])])

Norm(row) == Isqrt(SumF(Table([t \in DOMAIN row |-> row[t] * row[t]]), DOMAIN row))

\* cosine_similarity of two rows; a zero row stays zero
Cosine(a, b) ==
    LET den == Norm(a) * Norm(b)
    IN  [num |-> SumF(Table([t \in DOMAIN a |-> a[t] * b[t]]), DOMAIN a),
         den |-> IF den = 0 THEN 1 ELSE den]

SimGreater(a, b) == a.num * b.den > b.num * a.den
SimPositiveOrZero(a) == a.num >= 0
SimPositive(a) == a.num > 0

\* fit_transform raises ValueError("empty vocabulary; ...") when no term is left
EmptyVocabulary(tokdocs) == Vocabulary(tokdocs) = {}

\* similarities[i] for each document i of lecture_docs (1-based)
Similarities(question_text, docs) ==
    LET tokdocs == AnalyzeAll(<<question_text>> \o docs)
        tfidf_matrix == TfidfMatrix(tokdocs)
    IN  Table([i \in 1..Len(docs) |-> Cosine(tfidf_matrix[1], tfidf_matrix[i + 1])])

Injective(p) == \A i, j \in DOMAIN p : p[i] = p[j] => i = j

\* np.argsort(similarities): ascending, equal values in index order
ArgSort(sims) ==
    LET n == Len(sims)
    IN  CHOOSE p \in [1..n -> 1..n] :
            /\ Injective(p)
            /\ \A i, j \in 1..n : i < j =>
                   /\ ~SimGreater(sims[p[i]], sims[p[j]])
                   /\ (~SimGreater(sims[p[j]], sims[p[i]]) => p[i] < p[j])

Reverse(s) == [i \in 1..Len(s) |-> s[Len(s) + 1 - i]]

\* np.argsort(similarities)[::-1][:top_k]
TopIndicesAscending(sims, k) == Slice(ArgSort(sims), k)
TopIndices(sims, k) == Slice(Reverse(ArgSort(sims)), k)

\* [i for i in top_indices if similarities[i] > 0]
RelevantIndicesNonNegative(sims, k) ==
    SelectSeq(TopIndices(sims, k), LAMBDA i : SimPositiveOrZero(sims[i]))
RelevantIndices(sims, k) ==
    SelectSeq(TopIndices(sims, k), LAMBDA i : SimPositive(sims[i]))

ScoringRaises(question_text, docs) ==
    EmptyVocabulary(AnalyzeAll(<<question_text>> \o docs))

\* the try block up to cosine_similarity: lines 40-47
Score(question_text, docs) ==
    IF ScoringRaises(question_text, docs) THEN Raise("ValueError")
    ELSE Return(Similarities(question_text, docs))

\* except Exception: line 61
RetrieverExceptCatches(e) == IsException(e)

get_relevant_snippet(question_text, docs, k) ==
    IF Len(docs) = 0 THEN Return(<<>>)
    ELSE IF strip(question_text) = "" THEN Return(Slice(docs, k))
    ELSE LET scored == Score(question_text, docs)
         IN  IF scored.kind = "raise"
             THEN IF RetrieverExceptCatches(scored.exc)
                  THEN Return(Slice(docs, k))
                  ELSE scored
             ELSE LET similarities == scored.value
                      top_indices == RelevantIndices(similarities, k)
                      relevant_snippets ==
                          [n \in 1..Len(top_indices) |-> docs[top_indices[n]]]
                  IN  IF Len(relevant_snippets) = 0 THEN Return(Slice(docs, k))
                      ELSE Return(relevant_snippets)

(***************************************************************************)
(* JSON values.                                                            *)
(***************************************************************************)
JObj(f) == [t |-> "object", v |-> f]
JArr(s) == [t |-> "array", v |-> s]
JStr(s) == [t |-> "string", v |-> s]
JNum(n) == [t |-> "number", v |-> n]
JNull == [t |-> "null", v |-> 0]

IsSubstring(needle, hay) ==
    \E i \in 1..(Len(hay) - Len(needle) + 1) : SubSeq(hay, i, i + Len(needle) - 1) = needle

\* key in x, for a str key
PyIn(key, x) ==
    CASE x.t = "object" -> Return(key \in DOMAIN x.v)
      [] x.t = "array" -> Return(\E i \in DOMAIN x.v : x.v[i].t = "string" /\ x.v[i].v = key)
      [] x.t = "string" -> Return(IsSubstring(key, x.v))
      [] OTHER -> Raise("TypeError")

\* x[key], for a str key
PyGetKey(x, key) ==
    CASE x.t = "object" -> IF key \in DOMAIN x.v THEN Return(x.v[key]) ELSE Raise("KeyError")
      [] OTHER -> Raise("TypeError")

\* x[0]
PyGetFirst(x) ==
    CASE x.t = "object" -> Raise("KeyError")
      [] x.t = "array" -> IF Len(x.v) > 0 THEN Return(x.v[1]) ELSE Raise("IndexError")
      [] x.t = "string" -> IF Len(x.v) > 0 THEN Return(JStr(Char(x.v, 1))) ELSE Raise("IndexError")
      [] OTHER -> Raise("TypeError")

\* len(x)
PyLen(x) ==
    CASE x.t = "object" -> Return(Cardinality(DOMAIN x.v))
      [] x.t = "array" -> Return(Len(x.v))
      [] x.t = "string" -> Return(Len(x.v))
      [] OTHER -> Raise("TypeError")

(***************************************************************************)
(* llm_adapter                                                             *)
(***************************************************************************)
\* an optional str: <<>> is None, <<s>> is the str s
None == <<>>
Some(s) == <<s>>

\* a or b
PyOr(a, b) == IF a # None /\ a[1] # "" THEN a ELSE b

\* not self.api_key
MissingKeyNoneOnly(api_key) == api_key = None
MissingKey(api_key) == api_key = None \/ api_key[1] = ""

\* DeepSeekClient.__init__(api_key) under the environment value env
DeepSeekClient_init(api_key, env) ==
    LET self_api_key == PyOr(api_key, env)
    IN  IF MissingKey(self_api_key)
        THEN Raise("ValueError")
        ELSE Return([cls |-> "DeepSeekClient", returns |-> "", raises |-> ""])

\* the body of the try block once the response arrived: lines 74-80
ExtractText(data) ==
    LET has == PyIn("choices", data)
    IN  IF has.kind = "raise" THEN has
        ELSE IF ~has.value THEN Raise("ValueError")
        ELSE LET choices == PyGetKey(data, "choices")
             IN  IF choices.kind = "raise" THEN choices
                 ELSE LET n == PyLen(choices.value)
                      IN  IF n.kind = "raise" THEN n
                          ELSE IF ~(n.value > 0) THEN Raise("ValueError")
                          ELSE LET first == PyGetFirst(choices.value)
                               IN  IF first.kind = "raise" THEN first
                                   ELSE LET message == PyGetKey(first.value, "message")
                                        IN  IF message.kind = "raise" THEN message
                                            ELSE PyGetKey(message.value, "content")

\* requests.post, raise_for_status, resp.json(), then the extraction
TryBlock(resp, json_is_request_exc) ==
    IF resp.transport # "ok" THEN Raise(resp.transport)
    ELSE IF resp.status >= 400 /\ resp.status < 600 THEN Raise("HTTPError")
    ELSE IF ~resp.is_json
         THEN Raise(IF json_is_request_exc THEN "RequestsJSONDecodeError" ELSE "JSONDecodeError")
    ELSE ExtractText(resp.data)

\* except requests.exceptions.RequestException as e: raise RuntimeError(...)
DeepSeekClient_generate(resp, json_is_request_exc) ==
    LET r == TryBlock(resp, json_is_request_exc)
    IN  IF r.kind = "raise" /\ IsRequestException(r.exc) THEN Raise("RuntimeError")
        ELSE IF r.kind = "return" THEN Return(r.value.v)
        ELSE r

OpenAINotImplemented ==
    "OpenAI client not yet implemented. Please use DeepSeekClient for now."

\* OpenAIClient.generate
OpenAIClient_generate == Return(OpenAINotImplemented)


\* llm_client.generate(system_prompt, user_prompt) for the client objects the
\* model passes to run_xai; a stub returns its text or raises its exception
ClientGenerate(client, resp, json_is_request_exc) ==
    CASE client.cls = "DeepSeekClient" -> DeepSeekClient_generate(resp, json_is_request_exc)
      [] client.cls = "OpenAIClient" -> OpenAIClient_generate
      [] client.cls = "Stub" ->
            IF client.raises # "" THEN Raise(client.raises) ELSE Return(client.returns)
      [] OTHER -> Raise("AttributeError")

(***************************************************************************)
(* Inputs.                                                                 *)
(***************************************************************************)
LongDoc ==
    "Week 3: TF-IDF (Term Frequency-Inverse Document Frequency) is used to measure "
    \o "how important a word is in a document relative to the entire corpus. It helps "
    \o "identify keywords that are distinctive to a particular document."

QueryPool == {"", " \t", "What is TF-IDF?", "the of", "term importance in TF-IDF"}

DocPool == {"TF-IDF measures term importance",
            "TF-IDF vectorization",
            "XAI explains the model",
            "Mining text with TF",
            "the of"}

RECURSIVE ListsUpTo(_, _)
ListsUpTo(S, n) ==
    IF n = 0 THEN {<<>>}
    ELSE LET shorter == ListsUpTo(S, n - 1)
         IN  shorter \cup {Append(l, d) : l \in {x \in shorter : Len(x) = n - 1}, d \in S}

AnswerPool == {"Paris", "  paris ", "PARIS\n", "Berlin", "par is", "", " "}

EvidencePool == {"", " ", "TF-IDF measures term importance",
                 Slice(LongDoc, EvidenceSliceLen - 1),
                 Slice(LongDoc, EvidenceSliceLen),
                 Slice(LongDoc, EvidenceSliceLen + 1),
                 LongDoc}

EmptyObject == [k \in {} |-> JNull]

Choices(first) == JObj([choices |-> JArr(<<first>>)])

\* the JSON bodies the provider may answer with (a tuple: the values are of
\* different shapes)
BodyPool ==
    <<Choices(JObj([message |-> JObj([content |-> JStr("You are incorrect: TF-IDF weighs terms.")])])),
      Choices(JObj([message |-> JObj([content |-> JStr("")])])),
      JObj([choices |-> JArr(<<JObj([message |-> JObj([content |-> JStr("first")])]),
                               JObj([message |-> JObj([content |-> JStr("second")])])>>)]),
      JObj([choices |-> JArr(<<>>)]),
      JObj(EmptyObject),
      JObj([error |-> JStr("rate limited")]),
      Choices(JObj(EmptyObject)),
      Choices(JObj([message |-> JObj(EmptyObject)])),
      Choices(JObj([message |-> JStr("hi")])),
      Choices(JNull),
      Choices(JArr(<<>>)),
      JObj([choices |-> JNull]),
      JObj([choices |-> JObj([a |-> JNum(1)])]),
      JObj([choices |-> JStr("abc")]),
      JArr(<<>>),
      JArr(<<JStr("choices")>>),
      JStr("choices"),
      JNum(42),
      JNull>>

Resp(transport, status, is_json, data) ==
    [transport |-> transport, status |-> status, is_json |-> is_json, data |-> data]

\* what the endpoint may do with the request: answer 200 with a JSON body,
\* answer with a body that is no JSON, answer with an error status, fail in
\* transport
ResponsePool ==
    [i \in DOMAIN BodyPool |-> Resp("ok", 200, TRUE, BodyPool[i])]
    \o <<Resp("ok", 200, FALSE, JNull),
         Resp("ok", 204, FALSE, JNull),
         Resp("ok", 400, TRUE, JObj([error |-> JStr("rate limited")])),
         Resp("ok", 401, TRUE, JObj([error |-> JStr("rate limited")])),
         Resp("ok", 429, TRUE, JObj([error |-> JStr("rate limited")])),
         Resp("ok", 500, TRUE, JObj([error |-> JStr("rate limited")])),
         Resp("ok", 503, FALSE, JNull),
         Resp("ConnectionError", 0, FALSE, JNull),
         Resp("Timeout", 0, FALSE, JNull)>>

ClientNone == [cls |-> "None", returns |-> "", raises |-> ""]
StubReturning(text) == [cls |-> "Stub", returns |-> text, raises |-> ""]
StubRaising(e) == [cls |-> "Stub", returns |-> "", raises |-> e]

ClientPool ==
    {ClientNone,
     [cls |-> "DeepSeekClient", returns |-> "", raises |-> ""],
     [cls |-> "OpenAIClient", returns |-> "", raises |-> ""],
     StubReturning("Great job!"),
     StubRaising("Exception"),
     StubRaising("KeyboardInterrupt")}

EnvPool == {None, Some(""), Some("sk-env")}

PipelineQuestionPool == {"What is TF-IDF?", "  "}
PipelineStudentPool == {"Paris", " paris\n", "Berlin"}
PipelineCorrectPool == {"Paris"}
PipelineDocPool == {"TF-IDF measures term importance", "XAI explains the model", LongDoc}

NoReasoning == [status |-> "", explanation_hint |-> "", review_topic |-> ""]
NoResult == [kind |-> "none", status |-> "", explanation |-> "", evidence |-> "",
             review_topic |-> "", exc |-> ""]
NoResponse == Resp("none", 0, FALSE, JNull)

\* a call that ended by raising e
Raised(e) == [NoResult EXCEPT !.kind = "raise", !.exc = e]

(***************************************************************************)
(* SpecReason: one call of reason_mcq.                                     *)
(***************************************************************************)
InitReason ==
    /\ question \in PipelineQuestionPool
    /\ student_answer \in AnswerPool
    /\ correct_answer \in AnswerPool
    /\ evidence \in EvidencePool
    /\ pc = "call_reason_mcq"
    /\ lecture_docs = <<>> /\ top_k = 1 /\ llm_client = ClientNone /\ env_key = None
    /\ json_error_is_request_exception = TRUE
    /\ snippets = <<>> /\ reasoning = NoReasoning /\ ctor_outcome = NoOutcome
    /\ llm_outcome = NoOutcome /\ result = NoResult /\ trace = <<>> /\ llm_text = ""
    /\ http_response = NoResponse /\ generate_calls = 0

CallReason ==
    /\ pc = "call_reason_mcq"
    /\ reasoning' = reason_mcq(question, student_answer, correct_answer, evidence)
    /\ pc' = "reason_mcq_returned"
    /\ UNCHANGED <<question, student_answer, correct_answer, lecture_docs, top_k,
                   llm_client, env_key, json_error_is_request_exception, evidence,
                   snippets, ctor_outcome, llm_outcome, result, trace, llm_text,
                   http_response, generate_calls>>

SpecReason == InitReason /\ [][CallReason]_vars

(***************************************************************************)
(* SpecRetrieve: one call of get_relevant_snippet.                         *)
(***************************************************************************)
InitRetrieve ==
    /\ question \in QueryPool
    /\ lecture_docs \in ListsUpTo(DocPool, MaxDocs)
    /\ top_k \in 1..MaxTopK
    /\ pc = "call_get_relevant_snippet"
    /\ student_answer = "" /\ correct_answer = "" /\ evidence = ""
    /\ llm_client = ClientNone /\ env_key = None
    /\ json_error_is_request_exception = TRUE
    /\ snippets = <<>> /\ reasoning = NoReasoning /\ ctor_outcome = NoOutcome
    /\ llm_outcome = NoOutcome /\ result = NoResult /\ trace = <<>> /\ llm_text = ""
    /\ http_response = NoResponse /\ generate_calls = 0

CallRetrieve ==
    /\ pc = "call_get_relevant_snippet"
    /\ \E o \in {get_relevant_snippet(question, lecture_docs, top_k)} :
           /\ snippets' = IF o.kind = "return" THEN o.value ELSE snippets
           /\ result' = IF o.kind = "raise" THEN Raised(o.exc) ELSE result
           /\ pc' = IF o.kind = "raise" THEN "get_relevant_snippet_raised"
                    ELSE "get_relevant_snippet_returned"
    /\ UNCHANGED <<question, student_answer, correct_answer, lecture_docs, top_k,
                   llm_client, env_key, json_error_is_request_exception, evidence,
                   reasoning, ctor_outcome, llm_outcome, trace, llm_text,
                   http_response, generate_calls>>

SpecRetrieve == InitRetrieve /\ [][CallRetrieve]_vars

(***************************************************************************)
(* SpecGenerate: one call of DeepSeekClient.generate.                      *)
(***************************************************************************)
InitGenerate ==
    /\ \E i \in DOMAIN ResponsePool : http_response = ResponsePool[i]
    /\ json_error_is_request_exception \in BOOLEAN
    /\ llm_client = [cls |-> "DeepSeekClient", returns |-> "", raises |-> ""]
    /\ pc = "call_generate"
    /\ question = "" /\ student_answer = "" /\ correct_answer = "" /\ evidence = ""
    /\ lecture_docs = <<>> /\ top_k = 1 /\ env_key = None
    /\ snippets = <<>> /\ reasoning = NoReasoning /\ ctor_outcome = NoOutcome
    /\ llm_outcome = NoOutcome /\ result = NoResult /\ trace = <<>> /\ llm_text = ""
    /\ generate_calls = 0

CallGenerate ==
    /\ pc = "call_generate"
    /\ llm_outcome' = DeepSeekClient_generate(http_response, json_error_is_request_exception)
    /\ generate_calls' = generate_calls + 1
    /\ pc' = "generate_returned"
    /\ UNCHANGED <<question, student_answer, correct_answer, lecture_docs, top_k,
                   llm_client, env_key, json_error_is_request_exception, evidence,
                   snippets, reasoning, ctor_outcome, result, trace, llm_text,
                   http_response>>

SpecGenerate == InitGenerate /\ [][CallGenerate]_vars


(***************************************************************************)
(* Spec: one run of xai_pipeline.run_xai, stage by stage.                  *)
(***************************************************************************)
Init ==
    /\ question \in PipelineQuestionPool
    /\ student_answer \in PipelineStudentPool
    /\ correct_answer \in PipelineCorrectPool
    /\ lecture_docs \in ListsUpTo(PipelineDocPool, MaxDocs)
    /\ llm_client \in ClientPool
    /\ env_key = None
    /\ json_error_is_request_exception = TRUE
    /\ top_k = 1
    /\ pc = "retrieve"
    /\ evidence = "" /\ snippets = <<>> /\ reasoning = NoReasoning
    /\ ctor_outcome = NoOutcome /\ llm_outcome = NoOutcome /\ result = NoResult
    /\ trace = <<>> /\ llm_text = "" /\ http_response = NoResponse
    /\ generate_calls = 0

\* except (ValueError, RuntimeError) around DeepSeekClient()
CtorExceptCatches(e) == IsValueError(e) \/ e = "RuntimeError"

\* except Exception around llm_client.generate(...)
GenerateExceptCatchesNarrow(e) == IsValueError(e) \/ e = "RuntimeError"
GenerateExceptCatches(e) == IsException(e)

\* where run_xai goes after the client is resolved: lines 56-67
AfterResolveNoReturn(c) == "generate"
AfterResolve(c) ==
    IF c.kind = "raise"
    THEN IF CtorExceptCatches(c.exc) THEN "return_rule_based" ELSE "raised"
    ELSE "generate"

\* llm_text after the try/except around generate: lines 93-98
LlmTextHintWhenCorrect(o, r) ==
    IF o.kind = "return" /\ r.status # "correct" THEN o.value ELSE r.explanation_hint
LlmText(o, r) ==
    IF o.kind = "return" THEN o.value ELSE r.explanation_hint

\* lines 48-49
Retrieve ==
    /\ pc = "retrieve"
    /\ \E o \in {get_relevant_snippet(question, lecture_docs, top_k)} :
           IF o.kind = "raise"
           THEN /\ result' = Raised(o.exc)
                /\ pc' = "raised"
                /\ UNCHANGED <<snippets, evidence>>
           ELSE /\ snippets' = o.value
                /\ evidence' = IF Len(o.value) > 0 THEN o.value[1] ELSE ""
                /\ pc' = "classify"
                /\ UNCHANGED result
    /\ trace' = Append(trace, "retrieve")
    /\ UNCHANGED <<question, student_answer, correct_answer, lecture_docs, top_k,
                   llm_client, env_key, json_error_is_request_exception, reasoning,
                   ctor_outcome, llm_outcome, llm_text, http_response,
                   generate_calls>>

\* line 52
Classify ==
    /\ pc = "classify"
    /\ reasoning' = reason_mcq(question, student_answer, correct_answer, evidence)
    /\ trace' = Append(trace, "classify")
    /\ pc' = "resolve"
    /\ UNCHANGED <<question, student_answer, correct_answer, lecture_docs, top_k,
                   llm_client, env_key, json_error_is_request_exception, evidence,
                   snippets, ctor_outcome, llm_outcome, result, llm_text,
                   http_response, generate_calls>>

\* lines 56-61: use the supplied client or construct DeepSeekClient(), which
\* reads the environment variable (any value of EnvPool)
ResolveClient ==
    /\ pc = "resolve"
    /\ trace' = Append(trace, "resolve")
    /\ IF llm_client = ClientNone
       THEN \E env \in EnvPool :
                LET c == DeepSeekClient_init(None, env)
                IN  /\ env_key' = env
                    /\ ctor_outcome' = [c EXCEPT !.value = ""]
                    /\ llm_client' = IF c.kind = "return" THEN c.value ELSE llm_client
                    /\ pc' = AfterResolve(c)
                    /\ result' = IF AfterResolve(c) = "raised" THEN Raised(c.exc) ELSE result
       ELSE /\ pc' = "generate"
            /\ UNCHANGED <<env_key, ctor_outcome, llm_client, result>>
    /\ UNCHANGED <<question, student_answer, correct_answer, lecture_docs, top_k,
                   json_error_is_request_exception, evidence, snippets,
                   reasoning, llm_outcome, llm_text, http_response, generate_calls>>

\* lines 62-67: the dict returned when no client could be constructed
RuleBasedResultNoEvidence(r, ev) ==
    [kind |-> "return",
     status |-> r.status,
     explanation |-> r.explanation_hint,
     evidence |-> "",
     review_topic |-> r.review_topic,
     exc |-> ""]
RuleBasedResult(r, ev) ==
    [kind |-> "return",
     status |-> r.status,
     explanation |-> r.explanation_hint,
     evidence |-> ev,
     review_topic |-> r.review_topic,
     exc |-> ""]

\* lines 62-67: the result built from the reasoning record alone
ReturnRuleBased ==
    /\ pc = "return_rule_based"
    /\ result' = RuleBasedResult(reasoning, evidence)
    /\ trace' = Append(trace, "return")
    /\ pc' = "done"
    /\ UNCHANGED <<question, student_answer, correct_answer, lecture_docs, top_k,
                   llm_client, env_key, json_error_is_request_exception, evidence,
                   snippets, reasoning, ctor_outcome, llm_outcome, llm_text,
                   http_response, generate_calls>>

\* lines 93-98: the one call of generate; the provider answers with any
\* response of ResponsePool, under either build of requests
Generate ==
    /\ pc = "generate"
    /\ \E i \in DOMAIN ResponsePool, json_is_request_exc \in BOOLEAN :
          LET o == ClientGenerate(llm_client, ResponsePool[i], json_is_request_exc)
              escapes == o.kind = "raise" /\ ~GenerateExceptCatches(o.exc)
          IN  /\ llm_outcome' = o
              /\ generate_calls' = IF llm_client = ClientNone THEN generate_calls
                                   ELSE generate_calls + 1
              /\ llm_text' = IF escapes THEN llm_text ELSE LlmText(o, reasoning)
              /\ result' = IF escapes THEN Raised(o.exc) ELSE result
              /\ pc' = IF escapes THEN "raised" ELSE "return"
    /\ trace' = Append(trace, "generate")
    /\ UNCHANGED <<question, student_answer, correct_answer, lecture_docs, top_k,
                   llm_client, env_key, json_error_is_request_exception, evidence,
                   snippets, reasoning, ctor_outcome, http_response>>

\* lines 100-105
ReturnResult ==
    /\ pc = "return"
    /\ result' = [kind |-> "return",
                  status |-> reasoning.status,
                  explanation |-> llm_text,
                  evidence |-> evidence,
                  review_topic |-> reasoning.review_topic,
                  exc |-> ""]
    /\ trace' = Append(trace, "return")
    /\ pc' = "done"
    /\ UNCHANGED <<question, student_answer, correct_answer, lecture_docs, top_k,
                   llm_client, env_key, json_error_is_request_exception, evidence,
                   snippets, reasoning, ctor_outcome, llm_outcome, llm_text,
                   http_response, generate_calls>>

Next ==
    \/ Retrieve
    \/ Classify
    \/ ResolveClient
    \/ ReturnRuleBased
    \/ Generate
    \/ ReturnResult

Spec == Init /\ [][Next]_vars


(***************************************************************************)
(* Properties.                                                             *)
(***************************************************************************)
Range(seq) == {seq[i] : i \in DOMAIN seq}

RunReturned == pc = "done" /\ result.kind = "return"

\* the hint reason_mcq gives for a status
HintOf(status) == IF status = "correct" THEN CorrectHint ELSE IncorrectHint

\* C1: whenever a client is available (supplied or default-constructed) and
\* its generate call raises an error (any exception derived from Exception),
\* run_xai does not propagate it, and the result it returns has the
\* explanation_hint of this run's reasoning record as its explanation.
C1_GenerateErrorFallsBack ==
    (llm_outcome.kind = "raise" /\ IsException(llm_outcome.exc)) =>
        /\ pc # "raised"
        /\ result.kind # "raise"
        /\ pc = "done" =>
              /\ result.kind = "return"
              /\ result.explanation = reasoning.explanation_hint
              /\ result.explanation = HintOf(result.status)

\* a default-constructed client answered with a malformed body, generate
\* raised KeyError, and the run returned the incorrect-answer hint
C1_Witness ==
    /\ RunReturned
    /\ ctor_outcome.kind = "return"
    /\ llm_outcome.kind = "raise" /\ llm_outcome.exc = "KeyError"
    /\ result.status = "incorrect"
    /\ result.explanation = IncorrectHint

\* C2: with a caller-supplied client whose generate returns a text t without
\* raising, the explanation of the result is t, for either reasoning status.
C2_ReturnedTextPassesThrough ==
    (pc = "done" /\ ctor_outcome.kind = "none" /\ llm_outcome.kind = "return") =>
        /\ result.kind = "return"
        /\ result.explanation = llm_outcome.value

\* the stub returning "Great job!" on a correct answer
C2_Witness ==
    /\ RunReturned
    /\ llm_client = StubReturning("Great job!")
    /\ result.status = "correct"
    /\ result.explanation = "Great job!"

\* the default provider was attempted and the environment held no usable key
NoCredentialRun ==
    /\ "resolve" \in Range(trace)
    /\ ctor_outcome.kind # "none"
    /\ (env_key = None \/ env_key = Some(""))

\* C3: without a client and without a resolvable credential (variable unset
\* or empty), constructing the default provider fails with a configuration
\* error (ValueError), generate is never called, and run_xai returns a result
\* whose explanation is the reasoning record's explanation_hint.
C3_NoCredentialFallsBack ==
    NoCredentialRun =>
        /\ ctor_outcome = Raise("ValueError")
        /\ generate_calls = 0
        /\ "generate" \notin Range(trace)
        /\ llm_outcome = NoOutcome
        /\ pc # "raised"
        /\ pc = "done" =>
              /\ result.kind = "return"
              /\ result.explanation = reasoning.explanation_hint
              /\ result.explanation = HintOf(result.status)

\* the variable was set to the empty string and the run returned the hint
C3_Witness ==
    /\ RunReturned
    /\ NoCredentialRun
    /\ env_key = Some("")
    /\ result.explanation = IncorrectHint


RetrieveReturned == pc = "get_relevant_snippet_returned"

\* the similarity the retriever computes for the document text d
SimOfText(d) ==
    Similarities(question, lecture_docs)[CHOOSE i \in DOMAIN lecture_docs : lecture_docs[i] = d]

\* at most top_k documents, all of them documents of D
AtMostKFromDocs ==
    /\ Len(snippets) <= top_k
    /\ \A n \in DOMAIN snippets : snippets[n] \in Range(lecture_docs)

\* no returned document has a higher similarity than one returned before it
SortedBySimilarity ==
    \A m, n \in DOMAIN snippets :
        m < n => ~SimGreater(SimOfText(snippets[n]), SimOfText(snippets[m]))

\* C4 as stated: at most k documents, all drawn from D, no two returned
\* documents equal, ordered by similarity descending, and nothing when D is
\* empty.
C4_NoDuplicateTexts ==
    RetrieveReturned =>
        /\ AtMostKFromDocs
        /\ \A m, n \in DOMAIN snippets : m # n => snippets[m] # snippets[n]
        /\ SortedBySimilarity
        /\ (Len(lecture_docs) = 0 => snippets = <<>>)

\* C4 (amended): get_relevant_snippet returns at most k documents, each the
\* document at a position of D and no position of D taken twice (so a text is
\* repeated in the result only when D holds it at several positions), ordered
\* by similarity descending, and the empty list when D is empty.
C4_DistinctPositionsSorted ==
    RetrieveReturned =>
        /\ AtMostKFromDocs
        /\ \E f \in [DOMAIN snippets -> DOMAIN lecture_docs] :
              /\ Injective(f)
              /\ \A n \in DOMAIN snippets : snippets[n] = lecture_docs[f[n]]
        /\ SortedBySimilarity
        /\ (Len(lecture_docs) = 0 => snippets = <<>>)

\* two documents came back, the second of D first because it is more similar
C4_Witness ==
    /\ RetrieveReturned
    /\ Len(snippets) = 2
    /\ Len(lecture_docs) = 2
    /\ snippets[1] = lecture_docs[2]
    /\ SimGreater(SimOfText(snippets[1]), SimOfText(snippets[2]))

\* str.strip() leaves nothing: the query is empty or whitespace only
Blank(q) == \A i \in 1..Len(q) : IsSpace(Char(q, i))

FirstTopK == [n \in 1..Min(top_k, Len(lecture_docs)) |-> lecture_docs[n]]

\* C5: for non-empty D the call always returns (a failure of the scoring
\* step never reaches the caller); it returns exactly the first top_k
\* documents of D in their order when the query is blank, the scoring step
\* raises, or no document has similarity above zero; in every other case
\* each returned document has similarity strictly above zero.
C5_FallbackOrPositive ==
    (pc # "call_get_relevant_snippet" /\ Len(lecture_docs) > 0) =>
        /\ RetrieveReturned
        /\ result.kind # "raise"
        /\ IF \/ Blank(question)
              \/ ScoringRaises(question, lecture_docs)
              \/ \A i \in DOMAIN lecture_docs :
                     ~SimPositive(Similarities(question, lecture_docs)[i])
           THEN snippets = FirstTopK
           ELSE /\ Len(snippets) > 0
                /\ \A n \in DOMAIN snippets : SimPositive(SimOfText(snippets[n]))

\* a query of stop words over documents without terms: the vectorizer raises
\* and the first two documents come back
C5_Witness ==
    /\ RetrieveReturned
    /\ ~Blank(question)
    /\ ScoringRaises(question, lecture_docs)
    /\ Len(snippets) = 2
    /\ snippets = lecture_docs


ReasonReturned == pc = "reason_mcq_returned"

\* the text between the first and the last non-whitespace character of s
Trimmed(s) ==
    LET keep == {i \in 1..Len(s) : ~IsSpace(Char(s, i))}
    IN  IF keep = {} THEN ""
        ELSE SubSeq(s, CHOOSE a \in keep : \A b \in keep : a <= b,
                       CHOOSE a \in keep : \A b \in keep : a >= b)

\* the same character, or the two cases of one letter
SameIgnoringCase(c, d) ==
    \/ c = d
    \/ \E k \in 1..Len(UpperLetters) :
          {c, d} = {Char(UpperLetters, k), Char(LowerLetters, k)}

\* equal after trimming surrounding whitespace and lowercasing
EqualTrimmedIgnoringCase(a, b) ==
    /\ Len(Trimmed(a)) = Len(Trimmed(b))
    /\ \A i \in 1..Len(Trimmed(a)) :
          SameIgnoringCase(Char(Trimmed(a), i), Char(Trimmed(b), i))

\* C6: reason_mcq returns status "correct" exactly when student_answer and
\* correct_answer are equal after trimming surrounding whitespace and
\* lowercasing, and "incorrect" otherwise, whatever the question and the
\* evidence are.
C6_StatusIffNormalizedEqual ==
    ReasonReturned =>
        /\ reasoning.status \in {"correct", "incorrect"}
        /\ reasoning.status = "correct"
              <=> EqualTrimmedIgnoringCase(student_answer, correct_answer)

\* answers that differ as written but are equal after normalization
C6_Witness ==
    /\ ReasonReturned
    /\ student_answer = "  paris "
    /\ correct_answer = "PARIS\n"
    /\ evidence # ""
    /\ reasoning.status = "correct"

\* C7: in the incorrect branch the explanation_hint is the fixed text; with
\* non-empty evidence the review_topic contains the first 100 characters of
\* the evidence (all of it when shorter) followed by the ellipsis marker, and
\* besides them only the fixed framing text; with empty evidence the
\* review_topic is the fixed generic text.
C7_ReviewTopicEmbedsEvidencePrefix ==
    (ReasonReturned /\ reasoning.status = "incorrect") =>
        /\ reasoning.explanation_hint = IncorrectHint
        /\ evidence = "" => reasoning.review_topic = GenericReviewTopic
        /\ evidence # "" =>
              /\ IsSubstring(SubSeq(evidence, 1, Min(100, Len(evidence))) \o "...",
                             reasoning.review_topic)
              /\ reasoning.review_topic # GenericReviewTopic
              /\ Len(reasoning.review_topic) =
                    Len(EvidenceReviewPrefix) + Min(100, Len(evidence))
                        + Len(EvidenceReviewSuffix)

\* an incorrect answer with evidence longer than 100 characters
C7_Witness ==
    /\ ReasonReturned
    /\ reasoning.status = "incorrect"
    /\ Len(evidence) > 100
    /\ IsSubstring(SubSeq(evidence, 1, 100) \o "...", reasoning.review_topic)


GenerateReturned == pc = "generate_returned"

\* the response is a JSON object with a non-empty choices array whose first
\* element has message.content
WellShaped(resp) ==
    /\ resp.is_json
    /\ resp.data.t = "object"
    /\ "choices" \in DOMAIN resp.data.v
    /\ resp.data.v["choices"].t = "array"
    /\ Len(resp.data.v["choices"].v) > 0
    /\ resp.data.v["choices"].v[1].t = "object"
    /\ "message" \in DOMAIN resp.data.v["choices"].v[1].v
    /\ resp.data.v["choices"].v[1].v["message"].t = "object"
    /\ "content" \in DOMAIN resp.data.v["choices"].v[1].v["message"].v

\* the request failed in transport, timed out, or was answered with an HTTP
\* error status
CallFailed(resp) ==
    resp.transport # "ok" \/ (resp.status >= 400 /\ resp.status < 600)

\* C8: DeepSeekClient.generate ends in exactly one of three ways: it returns
\* message.content of the first choice; it raises the malformed-response
\* error (ValueError) for every answer that is not a JSON object with a
\* non-empty choices array whose first element has message.content; it
\* raises the provider-call-failed error (RuntimeError) for every transport,
\* HTTP-status or time-out failure.
C8_ThreeOutcomes ==
    GenerateReturned =>
        IF CallFailed(http_response)
        THEN llm_outcome = Raise("RuntimeError")
        ELSE IF WellShaped(http_response)
        THEN llm_outcome =
                 Return(http_response.data.v["choices"].v[1].v["message"].v["content"].v)
        ELSE llm_outcome.kind = "raise" /\ IsValueError(llm_outcome.exc)

\* C9: the stub provider never silently succeeds: a run of run_xai that is
\* given the stub client (OpenAIClient) does not return the stub's output as
\* the generated explanation.
C9_StubNeverPresentedAsExplanation ==
    (RunReturned /\ llm_client.cls = "OpenAIClient") =>
        result.explanation # OpenAINotImplemented

FullOrder == <<"retrieve", "classify", "resolve", "generate", "return">>
RuleBasedOrder == <<"retrieve", "classify", "resolve", "return">>

IsPrefix(a, b) == Len(a) <= Len(b) /\ a = SubSeq(b, 1, Len(a))

\* C10: the stages of a run occur in the order retrieve, classify, resolve
\* client, generate, return; generate is invoked at most once per run: never
\* when default construction failed, exactly once in every other run that
\* ended, and never again after it failed.
C10_StagesInOrderOneGenerate ==
    /\ generate_calls = Cardinality({i \in DOMAIN trace : trace[i] = "generate"})
    /\ generate_calls <= 1
    /\ IF ctor_outcome.kind = "raise"
       THEN IsPrefix(trace, RuleBasedOrder) /\ generate_calls = 0
       ELSE IsPrefix(trace, FullOrder)
    /\ llm_outcome.kind # "none" => generate_calls = 1
    /\ pc = "done" =>
          /\ trace = IF ctor_outcome.kind = "raise" THEN RuleBasedOrder ELSE FullOrder
          /\ generate_calls = IF ctor_outcome.kind = "raise" THEN 0 ELSE 1
    /\ pc = "raised" => generate_calls = 1

\* a run whose one generate call failed and which then returned
C10_Witness ==
    /\ RunReturned
    /\ llm_outcome.kind = "raise"
    /\ generate_calls = 1
    /\ trace = FullOrder

\* the status, evidence and review_topic a run's inputs determine: the
\* retriever's first document for the question (or the empty text) and the
\* reasoning record of the answers over that evidence
FrameOfInputs ==
    LET o  == get_relevant_snippet(question, lecture_docs, 1)
        ev == IF o.kind = "return" /\ Len(o.value) > 0 THEN o.value[1] ELSE ""
        r  == reason_mcq(question, student_answer, correct_answer, ev)
    IN  <<r.status, ev, r.review_topic>>

\* C11: the provider outcome affects only the explanation: on every exit
\* path of run_xai (construction failure, generate error, generate success)
\* the returned status, evidence and review_topic are the ones the question,
\* answers and documents determine, whatever the client, the environment or
\* the provider's response were; status and review_topic are those of the
\* reasoning record, and evidence is the first retrieved document, a member
\* of the input documents, or the empty text when nothing was retrieved.
C11_ProviderOutcomeOnlyAffectsExplanation ==
    RunReturned =>
        /\ <<result.status, result.evidence, result.review_topic>> = FrameOfInputs
        /\ result.status = reasoning.status
        /\ result.review_topic = reasoning.review_topic
        /\ IF snippets = <<>>
           THEN result.evidence = ""
           ELSE /\ result.evidence = snippets[1]
                /\ result.evidence \in Range(lecture_docs)

\* a run without a constructible client returned from the early exit with
\* a retrieved document as evidence and the review topic that embeds it
C11_Witness ==
    /\ RunReturned
    /\ ctor_outcome.kind = "raise"
    /\ generate_calls = 0
    /\ result.evidence \in Range(lecture_docs)
    /\ result.status = "incorrect"
    /\ result.review_topic # GenericReviewTopic
    /\ result.explanation = reasoning.explanation_hint


====
